---- MODULE Spec2Model ----
(***************************************************************************)
(* The group compositor of resvg: render.rs (skia, mirrored by qt),        *)
(* layers.rs (skia) and clip.rs (cairo), as a state machine with an        *)
(* explicit call stack.  One action is one straight-line step of one       *)
(* function; a call pushes a frame, Return pops it.                        *)
(*                                                                         *)
(* Geometry is one-dimensional: a transform is x |-> a*x + e (the a and e  *)
(* of usvg's (a,b,c,d,e,f)), a Rect is an origin and a width.  A surface's *)
(* pixels are the list of the draw commands that produced them; the empty  *)
(* list is the all-zero (transparent) raster.                              *)
(***************************************************************************)
EXTENDS Integers, Sequences, FiniteSets, TLC

VARIABLES
    doc,      \* the document being rendered and the canvas matrix (fixed by Init)
    stack,    \* call stack, innermost frame last
    surf,     \* every raster surface: 1 is the caller's canvas
    pools,    \* every Layers object created so far
    rstate,   \* every RenderState cell: 1 is the caller's
    ret,      \* value returned by the call that returned last
    fails     \* allocation failures so far

vars == <<doc, stack, surf, pools, rstate, ret, fails>>

\* How many surface allocations may fail in one run.
MaxAllocFail == 1

-----------------------------------------------------------------------------
(* Option<T> *)

None == <<>>
Some(x) == <<x>>
IsSome(o) == Len(o) > 0

-----------------------------------------------------------------------------
(* usvg::Transform and the native matrix *)

Transform_new(a, e) == [a |-> a, e |-> e]
Transform_default == Transform_new(1, 0)

\* self = self * other
Transform_append(t, o) == Transform_new(t.a * o.a, t.a * o.e + t.e)

Transform_is_default(t) == t = Transform_default

to_native(t) == <<t.a, t.e>>
from_native(m) == Transform_new(m[1], m[2])

MatrixIdentity == <<1, 0>>
\* canvas.concat / cairo transform(): current = current * m
MatrixConcat(cur, m) == <<cur[1] * m[1], cur[1] * m[2] + cur[2]>>

-----------------------------------------------------------------------------
(* usvg::Rect *)

Rect_new(x, w) == [x |-> x, w |-> w]
\* x is f64::MAX
Rect_new_bbox == Rect_new(1000, 1)
Rect_fuzzy_ne(r, s) == r # s
Rect_right(r) == r.x + r.w
Min(a, b) == IF a < b THEN a ELSE b
Max(a, b) == IF a > b THEN a ELSE b
Rect_expand(r, s) ==
    IF ~Rect_fuzzy_ne(r, Rect_new_bbox) THEN s
    ELSE LET x1 == Min(r.x, s.x)
             x2 == Max(Rect_right(r), Rect_right(s))
         IN  Rect_new(x1, x2 - x1)
Rect_transform(r, t) ==
    IF Transform_is_default(t) THEN Some(r)
    ELSE IF t.a * r.w > 0 THEN Some(Rect_new(t.a * r.x + t.e, t.a * r.w))
    ELSE None
Transform_from_bbox(r) == Transform_new(r.w, r.x)

-----------------------------------------------------------------------------
(* The document: a fixed skeleton whose groups take their attributes from  *)
(* a profile chosen by Init.                                               *)
(*   1 Svg                                                                 *)
(*     2 Defs                                                              *)
(*        3 ClipPath cp1 (clip-path m1, a mask): 4 Path,                   *)
(*                       5 Group(clip-path cp2){6 Path}, 18 Path           *)
(*        7 ClipPath cp2: 19 Image, 8 Path                                 *)
(*        9 Mask m1   10 Filter f1 (reads BackgroundImage)                 *)
(*       21 ClipPath cp3 (clip-path cp2): 22 Group{20 Path}, 23 Path,      *)
(*                       28 Group(clip-path cp2){29 Image, 30 Path}        *)
(*       24 Filter f2                                                      *)
(*    11 Group A (enable-background): 12 Path,                             *)
(*                13 Group B {15 Group C {16 Path}, 14 Image},             *)
(*                25 Group D {26 Path}                                     *)
(*    17 Path                                                              *)
(*    27 Group E (no children)                                             *)
(* Path 16 has no bounding box.                                            *)
(***************************************************************************)

Nodes == 1..30

Kind == <<"Svg", "Defs", "ClipPath", "Path", "Group", "Path", "ClipPath", "Path",
          "Mask", "Filter", "Group", "Path", "Group", "Image", "Group", "Path",
          "Path", "Path", "Image", "Path", "ClipPath", "Group", "Path", "Filter",
          "Group", "Path", "Group", "Group", "Image", "Path">>

Children == << <<2, 11, 17, 27>>, <<3, 7, 9, 10, 21, 24>>, <<4, 5, 18>>, <<>>, <<6>>, <<>>,
               <<19, 8>>, <<>>, <<>>, <<>>, <<12, 13, 25>>, <<>>, <<15, 14>>, <<>>,
               <<16>>, <<>>, <<>>, <<>>, <<>>, <<>>, <<22, 23, 28>>, <<20>>, <<>>, <<>>,
               <<26>>, <<>>, <<>>, <<29, 30>>, <<>>, <<>> >>

Parent == <<0, 1, 2, 3, 3, 5, 2, 7, 2, 2, 1, 11, 11, 13, 13, 15, 1, 3, 7, 22, 2, 21, 21, 2,
           11, 25, 1, 21, 28, 28>>

NodeId == <<"", "", "cp1", "", "", "", "cp2", "", "m1", "f1", "", "", "", "", "", "",
            "", "", "", "", "cp3", "", "", "f2", "", "", "", "", "", "">>

T_id == Transform_default
T_shift == Transform_new(1, 1)
T_scale == Transform_new(2, 0)
T_both == Transform_new(2, 1)

NodeTransform == <<T_id, T_id, T_shift, T_id, T_scale, T_shift, T_id, T_shift,
                   T_id, T_id, T_shift, T_id, T_scale, T_shift, T_both, T_shift,
                   T_scale, T_shift, T_id, T_id, T_scale, T_shift, T_shift, T_id,
                   T_shift, T_scale, T_id, T_id, T_shift, T_id>>

\* A group's references and opacity (in tenths; 10 is the default 1.0).
Profile(f, c, m, o) == [filter |-> f, clip_path |-> c, mask |-> m, opacity |-> o]
Profiles == <<Profile("", "", "", 10),
              Profile("f1", "", "", 10),
              Profile("f2", "cp1", "m1", 5),
              Profile("f1", "cp3", "m1", 5),
              Profile("nope", "m1", "cp1", 10),
              Profile("f2", "nope", "m1", 5)>>

ProfilesA == {1, 4}
ProfilesB == {1, 2, 3, 4, 5, 6}
ProfilesC == {1, 2, 3, 4, 5}
ProfilesD == {1, 2}

GroupAttrs(n) ==
    CASE n = 11 -> Profiles[doc.a]
      [] n = 13 -> Profiles[doc.b]
      [] n = 15 -> Profiles[doc.c]
      [] n = 25 -> Profiles[doc.d]
      [] n \in {5, 28} -> Profile("", "cp2", "", 10)
      [] OTHER  -> Profile("", "", "", 10)

enable_background(n) == n = 11

\* ClipPath attributes
ClipUnits(n) == IF n = 7 THEN "ObjectBoundingBox" ELSE "UserSpaceOnUse"
ClipNested(n) ==
    CASE n = 21 -> "cp2"
      [] n = 3  -> "m1"
      [] OTHER  -> ""

\* Filter attribute: some primitive reads BackgroundImage or BackgroundAlpha
FilterReadsBackground(n) == n = 10

\* What path::draw and image::draw return for a node
PathBBox(n) == IF n = 16 THEN None ELSE Some(Rect_new(0, 2))
ImageBBox(n) == Rect_new(0, 3)

ViewBoxTransform == T_both

\* usvg: the first child of defs with this id
defs_by_id(id) ==
    LET hits == {i \in DOMAIN Children[2] : NodeId[Children[2][i]] = id}
    IN  IF id = "" \/ hits = {} THEN None
        ELSE Some(Children[2][CHOOSE i \in hits : \A j \in hits : i <= j])

\* A reference followed whatever the kind of the node it names
Resolve_AnyKind(id, kind) == defs_by_id(id)

\* Resolve a reference to a definition of the wanted kind
Resolve(id, kind) ==
    LET d == defs_by_id(id)
    IN  IF IsSome(d) /\ Kind[d[1]] = kind THEN d ELSE None

RECURSIVE abs_transform(_)
abs_transform(n) ==
    IF Parent[n] = 0 THEN Transform_default
    ELSE Transform_append(abs_transform(Parent[n]), NodeTransform[Parent[n]])

RECURSIVE IsProperAncestor(_, _)
IsProperAncestor(a, n) ==
    IF Parent[n] = 0 THEN FALSE
    ELSE Parent[n] = a \/ IsProperAncestor(a, Parent[n])

RECURSIVE NearestBackgroundAncestor(_)
NearestBackgroundAncestor(n) ==
    IF Parent[n] = 0 THEN None
    ELSE IF Kind[Parent[n]] = "Group" /\ enable_background(Parent[n]) THEN Some(Parent[n])
    ELSE NearestBackgroundAncestor(Parent[n])

filter_background_start_node(n, f) ==
    IF ~FilterReadsBackground(f) THEN None ELSE NearestBackgroundAncestor(n)

-----------------------------------------------------------------------------
(* Surfaces.  px is the list of draw commands since the last fill; m and   *)
(* op are the matrix and the operator of the drawing context on it.        *)

Item(k, n, m, op, a, sub, bg) ==
    [k |-> k, n |-> n, m |-> m, op |-> op, a |-> a, sub |-> sub, bg |-> bg]

\* Memory as the allocator hands it out
RawSurface == [m |-> MatrixIdentity, op |-> "Over",
               px |-> <<Item("uninit", 0, MatrixIdentity, "", 0, <<>>, <<>>)>>]

\* surface.fill(0, 0, 0, 0)
Fill0(s) == [s EXCEPT !.px = <<>>]

IsZero(s) == s.px = <<>>

Draw(s, it) == [s EXCEPT !.px = Append(@, it)]

AllocOutcomes == IF fails < MaxAllocFail THEN {TRUE, FALSE} ELSE {TRUE}

create_subsurface(ok) == IF ok THEN Some(Fill0(RawSurface)) ELSE None

-----------------------------------------------------------------------------
(* Layers: d lists the surfaces, cnt is Rc::strong_count(&counter).        *)
(* The rest is history kept for checking: gets counts the successful get   *)
(* calls, dropped records the drop, target is the node of the RenderUntil  *)
(* state the render using these Layers started in (0: none), seen lists    *)
(* the nodes passed to render_node in that render, failed the groups whose *)
(* layer could not be allocated.                                           *)

Layers_new == [d |-> <<>>, cnt |-> 1, gets |-> 0, dropped |-> FALSE,
               target |-> 0, seen |-> <<>>, failed |-> {}]

used_layers(p) == p.cnt - 1

\* get that takes the counter before it knows the allocation succeeded
Layers_get_CountsFailure(p, ss, ok) ==
    IF used_layers(p) = Len(p.d)
    THEN LET img == create_subsurface(ok)
         IN  IF IsSome(img)
             THEN [pool |-> [p EXCEPT !.d = Append(@, Len(ss) + 1),
                                      !.cnt = @ + 1, !.gets = @ + 1],
                   surf |-> Append(ss, img[1]),
                   res  |-> Some(Len(ss) + 1)]
             ELSE [pool |-> [p EXCEPT !.cnt = @ + 1], surf |-> ss, res |-> None]
    ELSE LET s == p.d[used_layers(p) + 1]
         IN  [pool |-> [p EXCEPT !.cnt = @ + 1, !.gets = @ + 1],
              surf |-> [ss EXCEPT ![s] = Fill0(@)],
              res  |-> Some(s)]

\* get that hands a free layer out as it was left
Layers_get_NoClear(p, ss, ok) ==
    IF used_layers(p) = Len(p.d)
    THEN LET img == create_subsurface(ok)
         IN  IF IsSome(img)
             THEN [pool |-> [p EXCEPT !.d = Append(@, Len(ss) + 1),
                                      !.cnt = @ + 1, !.gets = @ + 1],
                   surf |-> Append(ss, img[1]),
                   res  |-> Some(Len(ss) + 1)]
             ELSE [pool |-> p, surf |-> ss, res |-> None]
    ELSE LET s == p.d[used_layers(p) + 1]
         IN  [pool |-> [p EXCEPT !.cnt = @ + 1, !.gets = @ + 1],
              surf |-> ss,
              res  |-> Some(s)]

\* get that never looks for a free layer
Layers_get_AlwaysAllocate(p, ss, ok) ==
    LET img == create_subsurface(ok)
    IN  IF IsSome(img)
        THEN [pool |-> [p EXCEPT !.d = Append(@, Len(ss) + 1),
                                 !.cnt = @ + 1, !.gets = @ + 1],
              surf |-> Append(ss, img[1]),
              res  |-> Some(Len(ss) + 1)]
        ELSE [pool |-> p, surf |-> ss, res |-> None]

\* get that takes the pool's first layer whenever the pool has one
Layers_get_FirstLayer(p, ss, ok) ==
    IF Len(p.d) = 0
    THEN LET img == create_subsurface(ok)
         IN  IF IsSome(img)
             THEN [pool |-> [p EXCEPT !.d = Append(@, Len(ss) + 1),
                                      !.cnt = @ + 1, !.gets = @ + 1],
                   surf |-> Append(ss, img[1]),
                   res  |-> Some(Len(ss) + 1)]
             ELSE [pool |-> p, surf |-> ss, res |-> None]
    ELSE LET s == p.d[1]
         IN  [pool |-> [p EXCEPT !.cnt = @ + 1, !.gets = @ + 1],
              surf |-> [ss EXCEPT ![s] = Fill0(@)],
              res  |-> Some(s)]

\* The pool, the surfaces and the result (the index of the leased surface)
Layers_get(p, ss, ok) ==
    IF used_layers(p) = Len(p.d)
    THEN LET img == create_subsurface(ok)
         IN  IF IsSome(img)
             THEN [pool |-> [p EXCEPT !.d = Append(@, Len(ss) + 1),
                                      !.cnt = @ + 1, !.gets = @ + 1],
                   surf |-> Append(ss, img[1]),
                   res  |-> Some(Len(ss) + 1)]
             ELSE [pool |-> p, surf |-> ss, res |-> None]
    ELSE LET s == p.d[used_layers(p) + 1]
         IN  [pool |-> [p EXCEPT !.cnt = @ + 1, !.gets = @ + 1],
              surf |-> [ss EXCEPT ![s] = Fill0(@)],
              res  |-> Some(s)]

\* A Layer whose counter holder is never given back
Layer_drop_Leak(p) == p

\* Drop for Layer: the counter holder goes away
Layer_drop(p) == [p EXCEPT !.cnt = @ - 1]

\* Drop for Layers
Layers_drop(p) == [p EXCEPT !.dropped = TRUE]

-----------------------------------------------------------------------------
(* RenderState *)

StateOk == [k |-> "Ok", node |-> 0]
RenderUntil(n) == [k |-> "RenderUntil", node |-> n]
BackgroundFinished == [k |-> "BackgroundFinished", node |-> 0]

-----------------------------------------------------------------------------
(* Call frames.  cv, st and pl are the canvas, the RenderState cell and    *)
(* the Layers the call was given; lease is the surface of the Layer it     *)
(* holds.  ts0 (the canvas matrix at entry) and stg (the stages run so     *)
(* far) are history kept for checking, and so is kids: the children a      *)
(* render_group has rendered, each with the value render_node returned;    *)
(* px0: how many draw commands the canvas of a clip held when clip was     *)
(* called; f0: the allocation failures before the call.                    *)

Frame(fn, node, cv, st, pl, def, bbox, ts0) ==
    [fn |-> fn, pc |-> "enter", node |-> node, cv |-> cv, st |-> st, pl |-> pl,
     def |-> def, bbox |-> bbox, i |-> 1, curr_ts |-> MatrixIdentity,
     matrix |-> MatrixIdentity, g_bbox |-> Rect_new_bbox, lease |-> 0,
     img |-> 0, rv |-> None, ts0 |-> ts0, stg |-> <<>>, kids |-> <<>>,
     px0 |-> 0, f0 |-> fails]

Top == stack[Len(stack)]
At(fn, pc) == Len(stack) > 0 /\ Top.fn = fn /\ Top.pc = pc
SetTop(f) == [stack EXCEPT ![Len(stack)] = f]
Call(caller, callee) == Append(SetTop(caller), callee)

\* A function returns: its Layer, if it holds one, is dropped
Return ==
    /\ Len(stack) > 0
    /\ Top.pc = "ret"
    /\ stack' = SubSeq(stack, 1, Len(stack) - 1)
    /\ ret' = Top.rv
    /\ pools' = IF Top.lease # 0
                THEN [pools EXCEPT ![Top.pl] = Layer_drop(@)]
                ELSE pools
    /\ UNCHANGED <<doc, surf, rstate, fails>>

-----------------------------------------------------------------------------
(* render.rs: render_node_to_canvas *)

RenderNodeToCanvas_Enter ==
    /\ At("render_node_to_canvas", "enter")
    /\ LET f  == Top
           pl == Len(pools) + 1
           \* apply_viewbox_transform
           m1 == MatrixConcat(surf[f.cv].m, to_native(ViewBoxTransform))
           ts == Transform_append(abs_transform(f.node), NodeTransform[f.node])
           m2 == MatrixConcat(m1, to_native(ts))
       IN  /\ pools' = Append(pools, [Layers_new EXCEPT !.target = rstate[f.st].node,
                                                        !.seen = <<f.node>>])
           /\ surf' = [surf EXCEPT ![f.cv].m = m2]
           /\ stack' = Call([f EXCEPT !.pc = "exit", !.pl = pl, !.curr_ts = m1],
                            Frame("render_node", f.node, f.cv, f.st, pl, 0, None, m2))
    /\ UNCHANGED <<doc, rstate, ret, fails>>

\* The matrix set back to what it was before the viewbox transform
RenderNodeToCanvas_Exit_BeforeViewBox ==
    /\ At("render_node_to_canvas", "exit")
    /\ surf' = [surf EXCEPT ![Top.cv].m = Top.ts0]
    /\ pools' = [pools EXCEPT ![Top.pl] = Layers_drop(@)]
    /\ stack' = SetTop([Top EXCEPT !.pc = "ret"])
    /\ UNCHANGED <<doc, rstate, ret, fails>>

RenderNodeToCanvas_Exit ==
    /\ At("render_node_to_canvas", "exit")
    /\ surf' = [surf EXCEPT ![Top.cv].m = Top.curr_ts]
    /\ pools' = [pools EXCEPT ![Top.pl] = Layers_drop(@)]
    /\ stack' = SetTop([Top EXCEPT !.pc = "ret"])
    /\ UNCHANGED <<doc, rstate, ret, fails>>

-----------------------------------------------------------------------------
(* render.rs: render_node *)

CallFrom(f, pc, fn) ==
    Call([f EXCEPT !.pc = pc],
         Frame(fn, f.node, f.cv, f.st, f.pl, 0, None, surf[f.cv].m))

RenderNode_Svg ==
    /\ At("render_node", "enter")
    /\ Kind[Top.node] = "Svg"
    /\ stack' = CallFrom(Top, "fwd", "render_group")
    /\ UNCHANGED <<doc, surf, pools, rstate, ret, fails>>

RenderNode_Path ==
    /\ At("render_node", "enter")
    /\ Kind[Top.node] = "Path"
    /\ surf' = [surf EXCEPT ![Top.cv] =
                   Draw(@, Item("path", Top.node, @.m, "SourceOver", 255, <<>>, <<>>))]
    /\ stack' = SetTop([Top EXCEPT !.pc = "ret", !.rv = PathBBox(Top.node)])
    /\ UNCHANGED <<doc, pools, rstate, ret, fails>>

RenderNode_Image ==
    /\ At("render_node", "enter")
    /\ Kind[Top.node] = "Image"
    /\ surf' = [surf EXCEPT ![Top.cv] =
                   Draw(@, Item("image", Top.node, @.m, "SourceOver", 255, <<>>, <<>>))]
    /\ stack' = SetTop([Top EXCEPT !.pc = "ret", !.rv = Some(ImageBBox(Top.node))])
    /\ UNCHANGED <<doc, pools, rstate, ret, fails>>

RenderNode_Group ==
    /\ At("render_node", "enter")
    /\ Kind[Top.node] = "Group"
    /\ stack' = CallFrom(Top, "fwd", "render_group_impl")
    /\ UNCHANGED <<doc, surf, pools, rstate, ret, fails>>

RenderNode_Other ==
    /\ At("render_node", "enter")
    /\ Kind[Top.node] \notin {"Svg", "Path", "Image", "Group"}
    /\ stack' = SetTop([Top EXCEPT !.pc = "ret", !.rv = None])
    /\ UNCHANGED <<doc, surf, pools, rstate, ret, fails>>

\* The value of the match arm that made a call
RenderNode_Result ==
    /\ At("render_node", "fwd")
    /\ stack' = SetTop([Top EXCEPT !.pc = "ret", !.rv = ret])
    /\ UNCHANGED <<doc, surf, pools, rstate, ret, fails>>

-----------------------------------------------------------------------------
(* render.rs: render_group *)

RenderGroup_Enter ==
    /\ At("render_group", "enter")
    /\ stack' = SetTop([Top EXCEPT !.pc = "loop", !.curr_ts = surf[Top.cv].m,
                                   !.g_bbox = Rect_new_bbox, !.i = 1])
    /\ UNCHANGED <<doc, surf, pools, rstate, ret, fails>>

\* The accumulated rectangle returned without looking at it
RenderGroup_Result_Unchecked(g_bbox) == Some(g_bbox)

\* Check that bbox was changed
RenderGroup_Result(g_bbox) ==
    IF Rect_fuzzy_ne(g_bbox, Rect_new_bbox) THEN Some(g_bbox) ELSE None

HasNext(f) == f.i <= Len(Children[f.node])
NextChild(f) == Children[f.node][f.i]

RenderGroup_Exhausted ==
    /\ At("render_group", "loop")
    /\ ~HasNext(Top)
    /\ stack' = SetTop([Top EXCEPT !.pc = "ret", !.rv = RenderGroup_Result(Top.g_bbox)])
    /\ UNCHANGED <<doc, surf, pools, rstate, ret, fails>>

\* The target passed over while the state stays RenderUntil
RenderGroup_StopAtTarget_PassOver ==
    /\ At("render_group", "loop")
    /\ HasNext(Top)
    /\ rstate[Top.st].k = "RenderUntil"
    /\ NextChild(Top) = rstate[Top.st].node
    /\ stack' = SetTop([Top EXCEPT !.i = @ + 1])
    /\ UNCHANGED <<doc, surf, pools, rstate, ret, fails>>

RenderGroup_StopAtTarget ==
    /\ At("render_group", "loop")
    /\ HasNext(Top)
    /\ rstate[Top.st].k = "RenderUntil"
    /\ NextChild(Top) = rstate[Top.st].node
    /\ rstate' = [rstate EXCEPT ![Top.st] = BackgroundFinished]
    /\ stack' = SetTop([Top EXCEPT !.pc = "ret", !.rv = RenderGroup_Result(Top.g_bbox)])
    /\ UNCHANGED <<doc, surf, pools, ret, fails>>

RenderGroup_StopFinished ==
    /\ At("render_group", "loop")
    /\ HasNext(Top)
    /\ rstate[Top.st].k = "BackgroundFinished"
    /\ stack' = SetTop([Top EXCEPT !.pc = "ret", !.rv = RenderGroup_Result(Top.g_bbox)])
    /\ UNCHANGED <<doc, surf, pools, rstate, ret, fails>>

RenderGroup_Child ==
    /\ At("render_group", "loop")
    /\ HasNext(Top)
    /\ rstate[Top.st].k # "BackgroundFinished"
    /\ rstate[Top.st].k = "RenderUntil" => NextChild(Top) # rstate[Top.st].node
    /\ LET n == NextChild(Top)
           m == MatrixConcat(surf[Top.cv].m, to_native(NodeTransform[n]))
       IN  /\ surf' = [surf EXCEPT ![Top.cv].m = m]
           /\ stack' = Call([Top EXCEPT !.pc = "after"],
                            Frame("render_node", n, Top.cv, Top.st, Top.pl, 0, None, m))
           /\ pools' = [pools EXCEPT ![Top.pl].seen = Append(@, n)]
    /\ UNCHANGED <<doc, rstate, ret, fails>>

\* The loop without its set_matrix(&curr_ts)
RenderGroup_AfterChild_NoRevert ==
    /\ At("render_group", "after")
    /\ LET n  == NextChild(Top)
           tb == IF IsSome(ret) THEN Rect_transform(ret[1], NodeTransform[n]) ELSE None
           g  == IF IsSome(tb) THEN Rect_expand(Top.g_bbox, tb[1]) ELSE Top.g_bbox
       IN  stack' = SetTop([Top EXCEPT !.pc = "loop", !.g_bbox = g, !.i = @ + 1,
                                       !.kids = Append(@, [n |-> n, r |-> ret])])
    /\ UNCHANGED <<doc, surf, pools, rstate, ret, fails>>

\* The child's bbox united as returned, not mapped through the child's transform
RenderGroup_AfterChild_Unmapped ==
    /\ At("render_group", "after")
    /\ LET n  == NextChild(Top)
           g  == IF IsSome(ret) THEN Rect_expand(Top.g_bbox, ret[1]) ELSE Top.g_bbox
       IN  stack' = SetTop([Top EXCEPT !.pc = "loop", !.g_bbox = g, !.i = @ + 1,
                                       !.kids = Append(@, [n |-> n, r |-> ret])])
    /\ surf' = [surf EXCEPT ![Top.cv].m = Top.curr_ts]
    /\ UNCHANGED <<doc, pools, rstate, ret, fails>>

RenderGroup_AfterChild ==
    /\ At("render_group", "after")
    /\ LET n  == NextChild(Top)
           tb == IF IsSome(ret) THEN Rect_transform(ret[1], NodeTransform[n]) ELSE None
           g  == IF IsSome(tb) THEN Rect_expand(Top.g_bbox, tb[1]) ELSE Top.g_bbox
       IN  stack' = SetTop([Top EXCEPT !.pc = "loop", !.g_bbox = g, !.i = @ + 1,
                                       !.kids = Append(@, [n |-> n, r |-> ret])])
    \* Revert transform.
    /\ surf' = [surf EXCEPT ![Top.cv].m = Top.curr_ts]
    /\ UNCHANGED <<doc, pools, rstate, ret, fails>>

-----------------------------------------------------------------------------
(* render.rs: render_group_impl *)

GroupFilter(n) == Resolve(GroupAttrs(n).filter, "Filter")
GroupClipPath(n) == Resolve(GroupAttrs(n).clip_path, "ClipPath")
GroupMask(n) == Resolve(GroupAttrs(n).mask, "Mask")

\* canvas.draw_surface at the identity matrix, the caller's matrix kept
DrawSurface(s, src, n, a) ==
    LET curr_ts == s.m
        reset   == [s EXCEPT !.m = MatrixIdentity]
        drawn   == Draw(reset, Item("surface", n, reset.m, "SourceOver", a, src.px, <<>>))
    IN  [drawn EXCEPT !.m = curr_ts]

\* (g.opacity.value() * 255.0) as u8
GroupAlpha(n) ==
    LET o == GroupAttrs(n).opacity
    IN  IF o # 10 THEN (o * 255) \div 10 ELSE 255

\* The mask block placed before the clip block
StageAfter_MaskFirst(stage) ==
    CASE stage = "filter" -> "mask"
      [] stage = "mask"   -> "clip"
      [] stage = "clip"   -> "composite"

\* The order of the stages after the children
StageAfter(stage) ==
    CASE stage = "filter" -> "clip"
      [] stage = "clip"   -> "mask"
      [] stage = "mask"   -> "composite"

\* A group that, left without a layer, renders its children on the parent canvas
RenderGroupImpl_Get_DrawOnParent ==
    /\ At("render_group_impl", "enter")
    /\ \E ok \in AllocOutcomes :
         LET got == Layers_get(pools[Top.pl], surf, ok)
             l   == IF IsSome(got.res) THEN got.res[1] ELSE Top.cv
             curr_ts == got.surf[Top.cv].m
         IN  /\ pools' = [pools EXCEPT ![Top.pl] =
                             IF IsSome(got.res) THEN got.pool
                             ELSE [got.pool EXCEPT !.failed = @ \cup {Top.node}]]
             /\ surf' = [got.surf EXCEPT ![l].m = curr_ts]
             /\ stack' = Call([Top EXCEPT !.pc = "children",
                                          !.lease = IF IsSome(got.res) THEN l ELSE 0,
                                          !.curr_ts = curr_ts],
                              Frame("render_group", Top.node, l, Top.st,
                                    Top.pl, 0, None, curr_ts))
             /\ fails' = IF IsSome(got.res) THEN fails ELSE fails + 1
    /\ UNCHANGED <<doc, rstate, ret>>

RenderGroupImpl_Get ==
    /\ At("render_group_impl", "enter")
    /\ \E ok \in AllocOutcomes :
         LET got == Layers_get(pools[Top.pl], surf, ok)
         IN  IF ~IsSome(got.res)
             THEN /\ stack' = SetTop([Top EXCEPT !.pc = "ret", !.rv = None])
                  /\ fails' = fails + 1
                  /\ pools' = [pools EXCEPT ![Top.pl] =
                                  [got.pool EXCEPT !.failed = @ \cup {Top.node}]]
                  /\ surf' = got.surf
             ELSE LET l       == got.res[1]
                      curr_ts == got.surf[Top.cv].m
                  IN  /\ pools' = [pools EXCEPT ![Top.pl] = got.pool]
                      /\ surf' = [got.surf EXCEPT ![l].m = curr_ts]
                      /\ stack' = Call([Top EXCEPT !.pc = "children", !.lease = l,
                                                   !.curr_ts = curr_ts],
                                       Frame("render_group", Top.node, l, Top.st,
                                             Top.pl, 0, None, curr_ts))
                      /\ fails' = fails
    /\ UNCHANGED <<doc, rstate, ret>>

\* The short-circuit blit with the group's own opacity
RenderGroupImpl_BackgroundFinished_Opacity ==
    /\ At("render_group_impl", "children")
    /\ rstate[Top.st] = BackgroundFinished
    /\ surf' = [surf EXCEPT ![Top.cv] =
                   DrawSurface(@, surf[Top.lease], Top.node, GroupAlpha(Top.node))]
    /\ stack' = SetTop([Top EXCEPT !.pc = "ret", !.bbox = ret, !.rv = ret,
                                   !.stg = Append(@, "blit")])
    /\ UNCHANGED <<doc, pools, rstate, ret, fails>>

\* *state == RenderState::BackgroundFinished
RenderGroupImpl_BackgroundFinished ==
    /\ At("render_group_impl", "children")
    /\ rstate[Top.st] = BackgroundFinished
    /\ surf' = [surf EXCEPT ![Top.cv] = DrawSurface(@, surf[Top.lease], Top.node, 255)]
    /\ stack' = SetTop([Top EXCEPT !.pc = "ret", !.bbox = ret, !.rv = ret,
                                   !.stg = Append(@, "blit")])
    /\ UNCHANGED <<doc, pools, rstate, ret, fails>>

RenderGroupImpl_FilterBackground ==
    /\ At("render_group_impl", "children")
    /\ rstate[Top.st] # BackgroundFinished
    /\ IsSome(GroupFilter(Top.node))
    /\ stack' = Call([Top EXCEPT !.pc = "filter", !.bbox = ret],
                     Frame("prepare_filter_background", Top.node, 0, 0, 0,
                           GroupFilter(Top.node)[1], None, MatrixIdentity))
    /\ UNCHANGED <<doc, surf, pools, rstate, ret, fails>>

RenderGroupImpl_NoFilter ==
    /\ At("render_group_impl", "children")
    /\ rstate[Top.st] # BackgroundFinished
    /\ ~IsSome(GroupFilter(Top.node))
    /\ stack' = SetTop([Top EXCEPT !.pc = StageAfter("filter"), !.bbox = ret])
    /\ UNCHANGED <<doc, surf, pools, rstate, ret, fails>>

\* crate::filter::apply on the sub surface, with the background just prepared
RenderGroupImpl_FilterApply ==
    /\ At("render_group_impl", "filter")
    /\ LET background == IF IsSome(ret) THEN Some(surf[ret[1].surface].px) ELSE None
           ts == from_native(Top.curr_ts)
       IN  surf' = [surf EXCEPT ![Top.lease].px =
                       <<Item("filter", GroupFilter(Top.node)[1], to_native(ts), "", 0,
                              @, background)>>]
    /\ stack' = SetTop([Top EXCEPT !.pc = StageAfter("filter"),
                                   !.stg = Append(@, "filter")])
    /\ UNCHANGED <<doc, pools, rstate, ret, fails>>

\* Masking without asking for a bounding box
CanMask_NoBBoxCheck(f) == IsSome(GroupMask(f.node))

CanClip(f) == IsSome(f.bbox) /\ IsSome(GroupClipPath(f.node))
CanMask(f) == IsSome(f.bbox) /\ IsSome(GroupMask(f.node))

RenderGroupImpl_Clip ==
    /\ At("render_group_impl", "clip")
    /\ CanClip(Top)
    /\ surf' = [surf EXCEPT ![Top.lease].m = Top.curr_ts]
    /\ stack' = Call([Top EXCEPT !.pc = StageAfter("clip"), !.stg = Append(@, "clip")],
                     [Frame("clip", GroupClipPath(Top.node)[1], Top.lease, 0, Top.pl,
                            0, Top.bbox, Top.curr_ts)
                         EXCEPT !.px0 = Len(surf[Top.lease].px)])
    /\ UNCHANGED <<doc, pools, rstate, ret, fails>>

RenderGroupImpl_NoClip ==
    /\ At("render_group_impl", "clip")
    /\ ~CanClip(Top)
    /\ stack' = SetTop([Top EXCEPT !.pc = StageAfter("clip")])
    /\ UNCHANGED <<doc, surf, pools, rstate, ret, fails>>

\* crate::mask::mask on the sub surface
RenderGroupImpl_Mask ==
    /\ At("render_group_impl", "mask")
    /\ CanMask(Top)
    /\ surf' = [surf EXCEPT ![Top.lease] =
                   [@ EXCEPT !.m = Top.curr_ts,
                             !.px = <<Item("mask", GroupMask(Top.node)[1], Top.curr_ts,
                                           "", 0, @, <<>>)>>]]
    /\ stack' = SetTop([Top EXCEPT !.pc = StageAfter("mask"),
                                   !.stg = Append(@, "mask")])
    /\ UNCHANGED <<doc, pools, rstate, ret, fails>>

RenderGroupImpl_NoMask ==
    /\ At("render_group_impl", "mask")
    /\ ~CanMask(Top)
    /\ stack' = SetTop([Top EXCEPT !.pc = StageAfter("mask")])
    /\ UNCHANGED <<doc, surf, pools, rstate, ret, fails>>

RenderGroupImpl_Composite ==
    /\ At("render_group_impl", "composite")
    /\ LET a == GroupAlpha(Top.node)
       IN  /\ surf' = [surf EXCEPT ![Top.cv] = DrawSurface(@, surf[Top.lease], Top.node, a)]
           /\ stack' = SetTop([Top EXCEPT !.pc = "ret", !.rv = Top.bbox,
                                          !.stg = Append(@, "composite")])
    /\ UNCHANGED <<doc, pools, rstate, ret, fails>>

-----------------------------------------------------------------------------
(* render.rs: prepare_filter_background *)

PrepareFilterBackground_NoStart ==
    /\ At("prepare_filter_background", "enter")
    /\ ~IsSome(filter_background_start_node(Top.node, Top.def))
    /\ stack' = SetTop([Top EXCEPT !.pc = "ret", !.rv = None])
    /\ UNCHANGED <<doc, surf, pools, rstate, ret, fails>>

\* The replay run on the state of the caller
PrepareFilterBackground_Render_CallerState ==
    /\ At("prepare_filter_background", "enter")
    /\ IsSome(filter_background_start_node(Top.node, Top.def))
    /\ \E ok \in AllocOutcomes :
         LET start_node == filter_background_start_node(Top.node, Top.def)[1]
             img        == create_subsurface(ok)
             st         == stack[Len(stack) - 1].st
         IN  IF ~IsSome(img)
             THEN /\ stack' = SetTop([Top EXCEPT !.pc = "ret", !.rv = None])
                  /\ fails' = fails + 1
                  /\ UNCHANGED <<surf, rstate>>
             ELSE /\ surf' = Append(surf, img[1])
                  /\ rstate' = [rstate EXCEPT ![st] = RenderUntil(Top.node)]
                  /\ stack' = Call([Top EXCEPT !.pc = "done", !.img = Len(surf) + 1],
                                   Frame("render_node_to_canvas", start_node,
                                         Len(surf) + 1, st, 0, 0, None,
                                         MatrixIdentity))
                  /\ fails' = fails
    /\ UNCHANGED <<doc, pools, ret>>

PrepareFilterBackground_Render ==
    /\ At("prepare_filter_background", "enter")
    /\ IsSome(filter_background_start_node(Top.node, Top.def))
    /\ \E ok \in AllocOutcomes :
         LET start_node == filter_background_start_node(Top.node, Top.def)[1]
             img        == create_subsurface(ok)
         IN  IF ~IsSome(img)
             THEN /\ stack' = SetTop([Top EXCEPT !.pc = "ret", !.rv = None])
                  /\ fails' = fails + 1
                  /\ UNCHANGED <<surf, rstate>>
             ELSE /\ surf' = Append(surf, img[1])
                  \* Render from the start_node until the parent.
                  /\ rstate' = Append(rstate, RenderUntil(Top.node))
                  /\ stack' = Call([Top EXCEPT !.pc = "done", !.img = Len(surf) + 1],
                                   Frame("render_node_to_canvas", start_node,
                                         Len(surf) + 1, Len(rstate) + 1, 0, 0, None,
                                         MatrixIdentity))
                  /\ fails' = fails
    /\ UNCHANGED <<doc, pools, ret>>

PrepareFilterBackground_Done ==
    /\ At("prepare_filter_background", "done")
    /\ stack' = SetTop([Top EXCEPT !.pc = "ret", !.rv = Some([surface |-> Top.img])])
    /\ UNCHANGED <<doc, surf, pools, rstate, ret, fails>>

-----------------------------------------------------------------------------
(* clip.rs: clip.  cv is the context cr of the caller, lease the surface   *)
(* of clip_cr.                                                             *)

\* cairo::Context::new on a surface
Context_new(s) == [s EXCEPT !.m = MatrixIdentity, !.op = "Over"]

\* set_source_rgba(0, 0, 0, alpha); paint()
PaintRgba(s, alpha) == Draw(s, Item("paint", 0, s.m, s.op, alpha, <<>>, <<>>))

\* set_source_surface(src, 0, 0); paint()
PaintSurface(s, src, n) == Draw(s, Item("paint_surface", n, s.m, s.op, 255, src.px, <<>>))

\* crate::path::draw on a cairo context
DrawPath(s, n) == Draw(s, Item("path", n, s.m, s.op, 255, <<>>, <<>>))

Transform(s, t) == [s EXCEPT !.m = MatrixConcat(@, to_native(t))]

ClipNestedPath(n) == Resolve(ClipNested(n), "ClipPath")

Clip_Get ==
    /\ At("clip", "enter")
    /\ \E ok \in AllocOutcomes :
         LET got == Layers_get(pools[Top.pl], surf, ok)
         IN  IF ~IsSome(got.res)
             THEN /\ stack' = SetTop([Top EXCEPT !.pc = "ret"])
                  /\ fails' = fails + 1
                  /\ pools' = [pools EXCEPT ![Top.pl] = got.pool]
                  /\ surf' = got.surf
             ELSE LET l  == got.res[1]
                      s1 == PaintRgba(Context_new(got.surf[l]), 255)
                      s2 == [s1 EXCEPT !.m = got.surf[Top.cv].m]
                      s3 == Transform(s2, NodeTransform[Top.node])
                      s4 == IF ClipUnits(Top.node) = "ObjectBoundingBox"
                            THEN Transform(s3, Transform_from_bbox(Top.bbox[1]))
                            ELSE s3
                      s5 == [s4 EXCEPT !.op = "Clear"]
                  IN  /\ pools' = [pools EXCEPT ![Top.pl] = got.pool]
                      /\ surf' = [got.surf EXCEPT ![l] = s5]
                      /\ stack' = SetTop([Top EXCEPT !.pc = "loop", !.lease = l,
                                                     !.matrix = s5.m, !.i = 1])
                      /\ fails' = fails
    /\ UNCHANGED <<doc, rstate, ret>>

Clip_Path ==
    /\ At("clip", "loop")
    /\ HasNext(Top)
    /\ Kind[NextChild(Top)] = "Path"
    /\ LET n == NextChild(Top)
       IN  surf' = [surf EXCEPT ![Top.lease] =
                       [DrawPath(Transform(@, NodeTransform[n]), n)
                           EXCEPT !.m = Top.matrix]]
    /\ stack' = SetTop([Top EXCEPT !.i = @ + 1])
    /\ UNCHANGED <<doc, pools, rstate, ret, fails>>

Clip_Group ==
    /\ At("clip", "loop")
    /\ HasNext(Top)
    /\ Kind[NextChild(Top)] = "Group"
    /\ LET n == NextChild(Top)
           s == Transform(surf[Top.lease], NodeTransform[n])
       IN  /\ surf' = [surf EXCEPT ![Top.lease] = s]
           /\ stack' = Call([Top EXCEPT !.pc = "after"],
                            Frame("clip_group", n, Top.lease, 0, Top.pl, 0, Top.bbox, s.m))
    /\ UNCHANGED <<doc, pools, rstate, ret, fails>>

Clip_AfterGroup ==
    /\ At("clip", "after")
    /\ surf' = [surf EXCEPT ![Top.lease].m = Top.matrix]
    /\ stack' = SetTop([Top EXCEPT !.pc = "loop", !.i = @ + 1])
    /\ UNCHANGED <<doc, pools, rstate, ret, fails>>

Clip_Other ==
    /\ At("clip", "loop")
    /\ HasNext(Top)
    /\ Kind[NextChild(Top)] \notin {"Path", "Group"}
    /\ surf' = [surf EXCEPT ![Top.lease] =
                   [Transform(@, NodeTransform[NextChild(Top)]) EXCEPT !.m = Top.matrix]]
    /\ stack' = SetTop([Top EXCEPT !.i = @ + 1])
    /\ UNCHANGED <<doc, pools, rstate, ret, fails>>

\* The clip-path of the clip-path applied onto clip_cr
Clip_Nested_OntoLayer ==
    /\ At("clip", "loop")
    /\ ~HasNext(Top)
    /\ IsSome(ClipNestedPath(Top.node))
    /\ stack' = Call([Top EXCEPT !.pc = "apply", !.stg = Append(@, "nested")],
                     [Frame("clip", ClipNestedPath(Top.node)[1], Top.lease, 0, Top.pl, 0,
                            Top.bbox, surf[Top.lease].m)
                         EXCEPT !.px0 = Len(surf[Top.lease].px)])
    /\ UNCHANGED <<doc, surf, pools, rstate, ret, fails>>

\* The clip-path of the clip-path: clip(clip_node, cp, bbox, layers, cr)
Clip_Nested ==
    /\ At("clip", "loop")
    /\ ~HasNext(Top)
    /\ IsSome(ClipNestedPath(Top.node))
    /\ stack' = Call([Top EXCEPT !.pc = "apply", !.stg = Append(@, "nested")],
                     [Frame("clip", ClipNestedPath(Top.node)[1], Top.cv, 0, Top.pl, 0,
                            Top.bbox, surf[Top.cv].m)
                         EXCEPT !.px0 = Len(surf[Top.cv].px)])
    /\ UNCHANGED <<doc, surf, pools, rstate, ret, fails>>

Clip_NoNested ==
    /\ At("clip", "loop")
    /\ ~HasNext(Top)
    /\ ~IsSome(ClipNestedPath(Top.node))
    /\ stack' = SetTop([Top EXCEPT !.pc = "apply"])
    /\ UNCHANGED <<doc, surf, pools, rstate, ret, fails>>

Clip_Apply ==
    /\ At("clip", "apply")
    /\ LET c1 == [surf[Top.cv] EXCEPT !.m = MatrixIdentity, !.op = "DestOut"]
           c2 == PaintSurface(c1, surf[Top.lease], Top.node)
       IN  \* Reset operator.
           surf' = [surf EXCEPT ![Top.cv] = [c2 EXCEPT !.op = "Over"]]
    /\ stack' = SetTop([Top EXCEPT !.pc = "ret"])
    /\ UNCHANGED <<doc, pools, rstate, ret, fails>>

-----------------------------------------------------------------------------
(* clip.rs: clip_group and draw_group_child *)

draw_group_child(s, node) ==
    IF Len(Children[node]) > 0
    THEN LET child == Children[node][1]
             t     == Transform(s, NodeTransform[child])
         IN  IF Kind[child] = "Path" THEN DrawPath(t, child) ELSE t
    ELSE s

ClipGroup_NoClipPath ==
    /\ At("clip_group", "enter")
    /\ ~IsSome(GroupClipPath(Top.node))
    /\ stack' = SetTop([Top EXCEPT !.pc = "ret"])
    /\ UNCHANGED <<doc, surf, pools, rstate, ret, fails>>

ClipGroup_Get ==
    /\ At("clip_group", "enter")
    /\ IsSome(GroupClipPath(Top.node))
    /\ \E ok \in AllocOutcomes :
         LET got == Layers_get(pools[Top.pl], surf, ok)
         IN  IF ~IsSome(got.res)
             THEN /\ stack' = SetTop([Top EXCEPT !.pc = "ret"])
                  /\ fails' = fails + 1
                  /\ pools' = [pools EXCEPT ![Top.pl] = got.pool]
                  /\ surf' = got.surf
             ELSE LET l  == got.res[1]
                      s1 == PaintRgba(Context_new(got.surf[l]), 0)
                      s2 == [s1 EXCEPT !.m = got.surf[Top.cv].m]
                      s3 == draw_group_child(s2, Top.node)
                  IN  /\ pools' = [pools EXCEPT ![Top.pl] = got.pool]
                      /\ surf' = [got.surf EXCEPT ![l] = s3]
                      /\ stack' = Call([Top EXCEPT !.pc = "blit", !.lease = l],
                                       [Frame("clip", GroupClipPath(Top.node)[1], l, 0,
                                              Top.pl, 0, Top.bbox, s3.m)
                                           EXCEPT !.px0 = Len(s3.px)])
                      /\ fails' = fails
    /\ UNCHANGED <<doc, rstate, ret>>

ClipGroup_Blit ==
    /\ At("clip_group", "blit")
    /\ LET c1 == [surf[Top.cv] EXCEPT !.m = MatrixIdentity, !.op = "Xor"]
           c2 == [c1 EXCEPT !.op = "DestOut"]
       IN  surf' = [surf EXCEPT ![Top.cv] = PaintSurface(c2, surf[Top.lease], Top.node)]
    /\ stack' = SetTop([Top EXCEPT !.pc = "ret"])
    /\ UNCHANGED <<doc, pools, rstate, ret, fails>>

-----------------------------------------------------------------------------
(* The render of one document, started in state Ok on the caller's canvas, *)
(* which is empty and may carry a matrix of its own.                       *)

\* The matrix the caller's canvas may carry when the render starts
CanvasMatrices == {MatrixIdentity, <<1, 2>>}

\* The documents rendered, each with the matrix of the canvas it is rendered
\* on; the family is kept small by pairing the matrix with D's profile.
Docs == {d \in [a : ProfilesA, b : ProfilesB, c : ProfilesC, d : ProfilesD,
                m : CanvasMatrices] : (d.m = MatrixIdentity) = (d.d = 1)}

Init ==
    /\ doc \in Docs
    /\ fails = 0
    /\ surf = <<[Fill0(RawSurface) EXCEPT !.m = doc.m]>>
    /\ stack = <<Frame("render_node_to_canvas", 1, 1, 1, 0, 0, None, doc.m)>>
    /\ pools = <<>>
    /\ rstate = <<StateOk>>
    /\ ret = None

Next ==
    \/ RenderNodeToCanvas_Enter
    \/ RenderNodeToCanvas_Exit
    \/ RenderNode_Svg
    \/ RenderNode_Path
    \/ RenderNode_Image
    \/ RenderNode_Group
    \/ RenderNode_Other
    \/ RenderNode_Result
    \/ RenderGroup_Enter
    \/ RenderGroup_Exhausted
    \/ RenderGroup_StopAtTarget
    \/ RenderGroup_StopFinished
    \/ RenderGroup_Child
    \/ RenderGroup_AfterChild
    \/ RenderGroupImpl_Get
    \/ RenderGroupImpl_BackgroundFinished
    \/ RenderGroupImpl_FilterBackground
    \/ RenderGroupImpl_NoFilter
    \/ RenderGroupImpl_FilterApply
    \/ RenderGroupImpl_Clip
    \/ RenderGroupImpl_NoClip
    \/ RenderGroupImpl_Mask
    \/ RenderGroupImpl_NoMask
    \/ RenderGroupImpl_Composite
    \/ PrepareFilterBackground_NoStart
    \/ PrepareFilterBackground_Render
    \/ PrepareFilterBackground_Done
    \/ Clip_Get
    \/ Clip_Path
    \/ Clip_Group
    \/ Clip_AfterGroup
    \/ Clip_Other
    \/ Clip_Nested
    \/ Clip_NoNested
    \/ Clip_Apply
    \/ ClipGroup_NoClipPath
    \/ ClipGroup_Get
    \/ ClipGroup_Blit
    \/ Return

Spec == Init /\ [][Next]_vars

Done == Len(stack) = 0

-----------------------------------------------------------------------------
(* Properties *)

Frames == DOMAIN stack
PoolIds == DOMAIN pools
Last(q) == q[Len(q)]
Walkers == {"render_node", "render_group", "render_group_impl"}

\* C1: every call of render_node, render_group and render_group_impl returns
\* with the transform of the canvas it was given equal to the transform that
\* canvas had when the call was entered.
C1_TransformRoundTrip ==
    \A i \in Frames :
        stack[i].fn \in Walkers /\ stack[i].pc \in {"enter", "ret"}
            => surf[stack[i].cv].m = stack[i].ts0

\* A group of a background replay returns after its short-circuit blit, on a
\* canvas whose transform is not the identity, in a run with a failed allocation.
C1_Witness ==
    /\ At("render_group_impl", "ret")
    /\ Top.stg = <<"blit">>
    /\ Top.ts0 # MatrixIdentity
    /\ fails > 0

\* C2: the Layers of a render has no layer in use when the render starts, none
\* when render_node has returned to render_node_to_canvas, and none when it is
\* dropped (the debug_assert of Drop for Layers).
C2_LayerAccounting ==
    /\ \A p \in PoolIds : pools[p].dropped => pools[p].cnt = 1
    /\ \A i \in Frames :
          stack[i].fn = "render_node_to_canvas" /\ stack[i].pc # "enter"
          /\ (i = Len(stack) \/ stack[i + 1].pc = "enter")
              => used_layers(pools[stack[i].pl]) = 0

\* A render that leased layers five times, one allocation failing, is over.
C2_Witness ==
    \E p \in PoolIds :
        pools[p].dropped /\ pools[p].gets >= 5 /\ pools[p].failed # {}

\* C3: the number of live leases of a Layers never exceeds the number of
\* surfaces it holds.
C3_UsedAtMostSize ==
    \A p \in PoolIds : used_layers(pools[p]) <= Len(pools[p].d)

\* Every surface of a pool of three is leased, after a failed allocation.
C3_Witness ==
    \E p \in PoolIds :
        /\ Len(pools[p].d) >= 3
        /\ used_layers(pools[p]) = Len(pools[p].d)
        /\ fails > 0

\* The calls about to run layers.get()
AboutToGet ==
    \/ At("render_group_impl", "enter")
    \/ At("clip", "enter")
    \/ At("clip_group", "enter") /\ IsSome(GroupClipPath(Top.node))

\* C4: whatever layers.get() returns, a fresh surface or a reused one, has all
\* pixels zero when it is returned.
C4_LayerZeroFilled ==
    AboutToGet =>
        \A ok \in BOOLEAN :
            LET got == Layers_get(pools[Top.pl], surf, ok)
            IN  IsSome(got.res) => IsZero(got.surf[got.res[1]])

\* get is about to hand out a surface that an earlier lease drew on.
C4_Witness ==
    /\ AboutToGet
    /\ used_layers(pools[Top.pl]) < Len(pools[Top.pl].d)
    /\ ~IsZero(surf[pools[Top.pl].d[used_layers(pools[Top.pl]) + 1]])

\* Leases held by the frames 1..i of the stack on pool p
LeaseCount(stk, p, i) ==
    Cardinality({j \in 1..i : stk[j].lease # 0 /\ stk[j].pl = p})

\* The k-th live lease of a pool, counted from the outermost call, is on the
\* pool's k-th surface.
C5_Stacked ==
    /\ \A i \in Frames :
          stack[i].lease # 0 =>
              stack[i].lease = pools[stack[i].pl].d[LeaseCount(stack, stack[i].pl, i)]
    /\ \A p \in PoolIds :
          ~pools[p].dropped => used_layers(pools[p]) = LeaseCount(stack, p, Len(stack))

C5_Step ==
    \A p \in PoolIds :
        LET h  == used_layers(pools[p])
            h2 == used_layers(pools'[p])
            d  == pools[p].d
            d2 == pools'[p].d
        IN  /\ h2 \in {h - 1, h, h + 1}
            /\ d2 # d => h = Len(d) /\ h2 = h + 1 /\ d2 = Append(d, Len(surf) + 1)
            /\ h2 = h + 1 =>
                  \E i \in DOMAIN stack' :
                      /\ stack'[i].pl = p
                      /\ stack'[i].lease = d2[h + 1]
                      /\ i \in Frames => stack[i].lease = 0
            /\ h2 = h - 1 => d2 = d /\ Top.pl = p /\ Top.lease = d[h]

\* C5: get appends a surface only when every surface is leased and otherwise
\* returns the surface at index h, the number of live leases; a successful get
\* raises h by one, a lease drop lowers it by one and gives back the surface
\* leased last; so sibling groups are given the same surface.
C5_LifoReuse == [](C5_Stacked) /\ [][C5_Step]_vars

\* Group D holds the second surface of a pool that B, its sibling, used before;
\* no allocation failed and the pool did not grow for D.
C5_Witness ==
    \E i \in Frames :
        /\ stack[i].fn = "render_group_impl"
        /\ stack[i].node = 25
        /\ fails = 0
        /\ LET p == pools[stack[i].pl]
           IN  stack[i].lease = p.d[2] /\ Len(p.d) = 3 /\ p.gets = 4 /\ 13 \in {p.seen[k] : k \in DOMAIN p.seen}

Seen(p) == {pools[p].seen[k] : k \in DOMAIN pools[p].seen}
IndexOf(q, x) == CHOOSE k \in DOMAIN q : q[k] = x
\* Rendering stops at x in a render with target t
Stops(x, t) == t # 0 /\ (x = t \/ IsProperAncestor(x, t))

\* A failing allocation changes no surface, no pool and no RenderState, and the
\* caller returns None on the spot.
C6_FailStep ==
    fails' # fails =>
        /\ surf' = surf
        /\ rstate' = rstate
        /\ \A p \in PoolIds : pools'[p].d = pools[p].d /\ pools'[p].cnt = pools[p].cnt
        /\ Len(stack') = Len(stack)
        /\ stack'[Len(stack)].pc = "ret"
        /\ stack'[Len(stack)].rv = None

\* No descendant of a group whose layer failed is rendered, and once the render
\* is over every sibling after it was rendered, up to where the render had to stop.
C6_SkippedOnly ==
    \A p \in PoolIds : \A n \in pools[p].failed :
        /\ \A x \in Seen(p) : ~IsProperAncestor(n, x)
        /\ (pools[p].dropped /\ Parent[n] \in Seen(p)) =>
              LET sibs == Children[Parent[n]]
                  at   == IndexOf(sibs, n)
                  t    == pools[p].target
              IN  \A j \in (at + 1)..Len(sibs) :
                      (sibs[j] # t /\ \A k \in (at + 1)..(j - 1) : ~Stops(sibs[k], t))
                          => sibs[j] \in Seen(p)

\* C6: when get cannot allocate, it and render_group_impl return None, nothing
\* is drawn, no pool, transform or RenderState changes, no child of the group is
\* rendered, and the enclosing render_group renders the following siblings.
C6_AllocationFailure == [][C6_FailStep]_vars /\ [](C6_SkippedOnly)

\* The layer of group B failed, and the render went on to its sibling D.
C6_Witness ==
    \E p \in PoolIds :
        pools[p].dropped /\ 13 \in pools[p].failed /\ 25 \in Seen(p)

\* What the loop of render_group does on its own state: the target is never the
\* child of a render_node call made under that state, and a loop that met the
\* target has set BackgroundFinished and returned.
OwnLoopStopsAtTarget ==
    \A p \in PoolIds :
        LET t == pools[p].target
        IN  t # 0 =>
              /\ \A x \in Seen(p) : x # t /\ ~IsProperAncestor(t, x)
              /\ \A i \in Frames :
                    (stack[i].fn = "render_group" /\ stack[i].pl = p
                     /\ stack[i].pc # "enter" /\ HasNext(stack[i])
                     /\ NextChild(stack[i]) = t)
                        => /\ stack[i].pc \in {"loop", "ret"}
                           /\ stack[i].pc = "ret" => rstate[stack[i].st] = BackgroundFinished

\* C7: while a render started in RenderUntil(T) is running, no call of
\* render_node is for T or for a descendant of T.
C7_TargetNeverRendered ==
    \A i, j \in Frames :
        (j < i /\ stack[j].fn = "render_node_to_canvas" /\ stack[j].pl # 0
         /\ stack[i].fn = "render_node")
            => LET t == pools[stack[j].pl].target
               IN  t # 0 => stack[i].node # t /\ ~IsProperAncestor(t, stack[i].node)

\* C8: a group whose children were walked in a render that reached
\* BackgroundFinished runs no filter, clip or mask: it draws its layer on the
\* parent at the identity matrix with alpha 255 and SourceOver, leaves the
\* parent's transform as it was and returns what render_group returned.
C8_BackgroundFinishedBlit ==
    \A i \in Frames :
        LET f == stack[i]
        IN  (f.fn = "render_group_impl" /\ rstate[f.st] = BackgroundFinished) =>
              /\ f.pc \in {"enter", "children", "ret"}
              /\ f.stg \in {<<>>, <<"blit">>}
              /\ (f.pc = "ret" /\ f.lease # 0) =>
                    /\ f.stg = <<"blit">>
                    /\ Last(surf[f.cv].px) =
                          Item("surface", f.node, MatrixIdentity, "SourceOver", 255,
                               surf[f.lease].px, <<>>)
                    /\ surf[f.cv].m = f.ts0
                    /\ f.rv = ret

\* Group A, with a filter, a clip-path, a mask and opacity 0.5, has blitted its
\* layer in a background replay and returns a bounding box.
C8_Witness ==
    /\ At("render_group_impl", "ret")
    /\ rstate[Top.st] = BackgroundFinished
    /\ Top.node = 11
    /\ doc.a = 4
    /\ Top.ts0 # MatrixIdentity
    /\ IsSome(Top.rv)

StageRank(stage) ==
    CASE stage = "filter"    -> 1
      [] stage = "clip"      -> 2
      [] stage = "mask"      -> 3
      [] stage = "composite" -> 4
      [] stage = "blit"      -> 4

\* C9: outside BackgroundFinished a group's children are rendered into its
\* layer before any stage runs; filter, clip and mask run in this order, each
\* at most once; the layer is composited onto the parent once, after them.
C9_StageOrder ==
    \A i \in Frames :
        LET f == stack[i]
        IN  f.fn = "render_group_impl" =>
              /\ \A a, b \in DOMAIN f.stg :
                    a < b => StageRank(f.stg[a]) < StageRank(f.stg[b])
              /\ f.pc \in {"enter", "children"} => f.stg = <<>>
              /\ f.lease = 0 => f.stg = <<>>
              /\ \A j \in Frames :
                    (j > i /\ stack[j].fn \in Walkers /\ stack[j].cv = f.lease)
                        => f.pc = "children"
              /\ (f.pc = "ret" /\ f.lease # 0 /\ rstate[f.st] # BackgroundFinished) =>
                    /\ Last(f.stg) = "composite"
                    /\ Last(surf[f.cv].px).k = "surface"
                    /\ Last(surf[f.cv].px).sub = surf[f.lease].px

\* A group has run filter, clip, mask and the composite.
C9_Witness ==
    /\ At("render_group_impl", "ret")
    /\ Top.stg = <<"filter", "clip", "mask", "composite">>

\* C10: a group whose children gave no bounding box runs neither clip nor
\* mask, though both references resolve; its filter, when it resolves, is
\* applied and its layer is composited.
C10_NoBBoxNoClipNoMask ==
    \A i \in Frames :
        LET f == stack[i]
        IN  (f.fn = "render_group_impl" /\ f.pc \notin {"enter", "children"}
             /\ f.lease # 0 /\ rstate[f.st] # BackgroundFinished /\ ~IsSome(f.bbox)) =>
              /\ \A a \in DOMAIN f.stg : f.stg[a] \notin {"clip", "mask"}
              /\ \A j \in Frames : j > i => ~(stack[j].fn = "clip" /\ stack[j].cv = f.lease)
              /\ f.pc = "ret" =>
                    /\ IsSome(GroupFilter(f.node)) => f.stg[1] = "filter"
                    /\ Last(f.stg) = "composite"

\* Group C, whose filter, clip-path and mask all resolve and whose only child
\* has no bounding box, returns having run the filter and the composite.
C10_Witness ==
    /\ At("render_group_impl", "ret")
    /\ Top.node = 15
    /\ doc.c = 4
    /\ ~IsSome(Top.bbox)
    /\ Top.stg = <<"filter", "composite">>

\* The id names a child of defs of the wanted kind (ids are unique)
RefGood(id, kind) ==
    \E n \in Nodes : Parent[n] = 2 /\ NodeId[n] = id /\ id # "" /\ Kind[n] = kind

\* The stages of a group as its good references and its bounding box give them
StagesOf(n, bbox) ==
    LET g == GroupAttrs(n)
    IN  (IF RefGood(g.filter, "Filter") THEN <<"filter">> ELSE <<>>)
        \o (IF IsSome(bbox) /\ RefGood(g.clip_path, "ClipPath") THEN <<"clip">> ELSE <<>>)
        \o (IF IsSome(bbox) /\ RefGood(g.mask, "Mask") THEN <<"mask">> ELSE <<>>)
        \o <<"composite">>

\* C11: a filter, clip-path or mask id that names nothing, or a node of another
\* kind, counts as no reference: the group runs exactly the stages of its good
\* references, composites with its opacity, returns the children's bbox and
\* leaves the canvas transform as found; clip follows the clip-path of a
\* clip-path only when it names a ClipPath.
C11_BrokenReferenceSkipped ==
    \A i \in Frames :
        LET f == stack[i]
        IN  /\ (f.fn = "render_group_impl" /\ f.pc = "ret" /\ f.lease # 0
                /\ rstate[f.st] # BackgroundFinished) =>
                  /\ f.stg = StagesOf(f.node, f.bbox)
                  /\ Last(surf[f.cv].px).a = GroupAlpha(f.node)
                  /\ f.rv = f.bbox
                  /\ surf[f.cv].m = f.ts0
            /\ (f.fn = "clip" /\ f.pc \in {"apply", "ret"} /\ f.lease # 0) =>
                  (f.stg = <<"nested">>) = RefGood(ClipNested(f.node), "ClipPath")

\* Group B, whose clip-path id names nothing, has run its filter and its mask
\* and is composited at half opacity.
C11_Witness ==
    /\ At("render_group_impl", "ret")
    /\ Top.node = 13
    /\ doc.b = 6
    /\ IsSome(Top.bbox)
    /\ Top.stg = <<"filter", "mask", "composite">>

\* The bboxes the rendered children of a render_group gave, each mapped through
\* its child's transform
MappedBoxes(f) ==
    LET m(k) == Rect_transform(f.kids[k].r[1], NodeTransform[f.kids[k].n])
    IN  {m(k)[1] : k \in {j \in DOMAIN f.kids : IsSome(f.kids[j].r) /\ IsSome(m(j))}}

\* C12: render_group returns None when no child gave a bounding box (no
\* children, the loop left before the first child, or None from every child),
\* and what it returns is never Some of the Rect::new_bbox() sentinel.
C12_NoBBoxIsNone ==
    \A i \in Frames :
        LET f == stack[i]
        IN  (f.fn = "render_group" /\ f.pc = "ret") =>
              /\ Len(f.kids) = f.i - 1
              /\ MappedBoxes(f) = {} => f.rv = None
              /\ f.rv # Some(Rect_new_bbox)

\* The three cases, each met by some render_group about to return None: group
\* E has no children, the loop of B met the target as its first child, and the
\* only child of C gave None.
C12_Case(f) ==
    CASE f.node = 27 -> Children[f.node] = <<>>
      [] f.node = 13 -> f.kids = <<>> /\ HasNext(f)
      [] f.node = 15 -> Len(f.kids) = 1 /\ f.kids[1].r = None
      [] OTHER -> FALSE

C12_Witness ==
    /\ At("render_group", "ret")
    /\ Top.rv = None
    /\ C12_Case(Top)
    /\ Top.node = 13

\* The smallest rectangle holding every rectangle of a non-empty set
UnionOf(bs) ==
    LET x1 == CHOOSE x \in {b.x : b \in bs} : \A b \in bs : x <= b.x
        x2 == CHOOSE x \in {Rect_right(b) : b \in bs} : \A b \in bs : Rect_right(b) <= x
    IN  Rect_new(x1, x2 - x1)

\* C13: the bbox render_group returns contains the bbox of every rendered child
\* mapped through that child's transform, and is the union of these.
C13_BBoxIsUnion ==
    \A i \in Frames :
        LET f == stack[i]
        IN  (f.fn = "render_group" /\ f.pc = "ret" /\ MappedBoxes(f) # {}) =>
              /\ IsSome(f.rv)
              /\ \A b \in MappedBoxes(f) :
                    f.rv[1].x <= b.x /\ Rect_right(b) <= Rect_right(f.rv[1])
              /\ f.rv[1] = UnionOf(MappedBoxes(f))

\* A render_group returns the union of two different mapped boxes, one of them
\* moved by its child's transform.
C13_Witness ==
    /\ At("render_group", "ret")
    /\ Cardinality(MappedBoxes(Top)) >= 2
    /\ \E k \in DOMAIN Top.kids :
          IsSome(Top.kids[k].r) /\ Top.kids[k].r[1] \notin MappedBoxes(Top)
    /\ \A b \in MappedBoxes(Top) : Top.rv[1] # b

\* round(o * 255) for an opacity of o tenths, halves away from zero
RoundedAlpha(o) == (2 * o * 255 + 10) \div 20

\* C14: a group's layer is composited with alpha round(opacity * 255), and the
\* draws that follow are made with alpha 255.
C14_AlphaIsRounded ==
    /\ \A i \in Frames :
          LET f == stack[i]
          IN  (f.fn = "render_group_impl" /\ f.pc = "ret" /\ f.lease # 0
               /\ rstate[f.st] # BackgroundFinished) =>
                 Last(surf[f.cv].px).a = RoundedAlpha(GroupAttrs(f.node).opacity)
    /\ \A c \in DOMAIN surf : \A k \in DOMAIN surf[c].px :
          surf[c].px[k].k \in {"path", "image"} => surf[c].px[k].a = 255

\* C15: a function that changes the transform of the canvas (or context) it
\* was given returns with that transform as it was at entry: render_node,
\* render_group, render_group_impl, clip and clip_group; render_node_to_canvas
\* alone leaves the viewbox transform in place.
C15_TransformRestored ==
    \A i \in Frames :
        LET f == stack[i]
        IN  /\ (f.fn \in Walkers \cup {"clip", "clip_group"} /\ f.pc = "ret") =>
                  surf[f.cv].m = f.ts0
            /\ (f.fn = "render_node_to_canvas" /\ f.pc = "ret") =>
                  surf[f.cv].m = MatrixConcat(f.ts0, to_native(ViewBoxTransform))

\* C16: render_node_to_canvas returns with the canvas transform equal to the
\* transform at entry composed with the viewbox transform, whatever the
\* RenderState and whether or not anything was drawn.
C16_ViewBoxTransformKept ==
    \A i \in Frames :
        LET f == stack[i]
        IN  (f.fn = "render_node_to_canvas" /\ f.pc = "ret") =>
              surf[f.cv].m = MatrixConcat(f.ts0, to_native(ViewBoxTransform))

\* The top-level render, entered on a canvas with a matrix of its own, is about
\* to return after a run in which an allocation failed.
C16_Witness ==
    /\ At("render_node_to_canvas", "ret")
    /\ Len(stack) = 1
    /\ Top.ts0 # MatrixIdentity
    /\ fails > 0

-----------------------------------------------------------------------------
(* Coverage.  The pixels of a one-dimensional canvas are 0 .. PixelCount-1 *)
(* and a surface covers the pixels where its alpha is not zero.  A path    *)
(* or image fills its extent mapped through the matrix it was drawn with.  *)

PixelCount == 150

Pix == 0 .. (PixelCount - 1)

\* The pixels of the extent r under the matrix m
Area(r, m) == {p \in Pix : m[1] * r.x + m[2] <= p /\ p < m[1] * (r.x + r.w) + m[2]}

PathArea(n, m) == IF IsSome(PathBBox(n)) THEN Area(PathBBox(n)[1], m) ELSE {}

\* The pixels covered after the draw commands px on a surface that covered
\* base: Over and SourceOver add the drawn pixels, Clear and DestOut take
\* them away, and a source of alpha 0 draws nothing.
RECURSIVE Cov(_, _)
Cov(px, base) ==
    IF px = <<>>
    THEN base
    ELSE LET it    == Last(px)
             below == Cov(SubSeq(px, 1, Len(px) - 1), base)
             drawn == CASE it.k = "paint" -> IF it.a = 0 THEN {} ELSE Pix
                        [] it.k = "path" -> PathArea(it.n, it.m)
                        [] it.k = "image" -> Area(ImageBBox(it.n), it.m)
                        [] it.k \in {"paint_surface", "surface"} ->
                               IF it.a = 0 THEN {} ELSE Cov(it.sub, {})
                        [] OTHER -> {}
         IN  IF it.op \in {"Clear", "DestOut"} THEN below \ drawn ELSE below \cup drawn

\* The clip region of the clip-path cp for a context whose matrix is m and
\* an element of bounding box bbox: the union of the contributions of the
\* children, intersected with the region of the clip-path's own clip-path.
\* The clip-path of a Group child is taken in the user space of the path
\* the group draws.
RECURSIVE ClipRegion(_, _, _)
ClipRegion(cp, m, bbox) ==
    LET own  == MatrixConcat(m, to_native(NodeTransform[cp]))
        user == IF ClipUnits(cp) = "ObjectBoundingBox"
                THEN MatrixConcat(own, to_native(Transform_from_bbox(bbox[1])))
                ELSE own
        Contribution(c) ==
            IF Kind[c] = "Path"
            THEN PathArea(c, MatrixConcat(user, to_native(NodeTransform[c])))
            ELSE IF Kind[c] = "Group" /\ IsSome(GroupClipPath(c))
                                      /\ Len(Children[c]) > 0
                                      /\ Kind[Children[c][1]] = "Path"
            THEN LET first == Children[c][1]
                     space == MatrixConcat(MatrixConcat(user, to_native(NodeTransform[c])),
                                           to_native(NodeTransform[first]))
                 IN  PathArea(first, space)
                         \cap ClipRegion(GroupClipPath(c)[1], space, bbox)
            ELSE {}
        union == UNION {Contribution(Children[cp][k]) : k \in 1 .. Len(Children[cp])}
    IN  IF IsSome(ClipNestedPath(cp))
        THEN union \cap ClipRegion(ClipNestedPath(cp)[1], m, bbox)
        ELSE union

\* The draw commands the clip of frame f has added to its target
ClipAdded(f) == SubSeq(surf[f.cv].px, f.px0 + 1, Len(surf[f.cv].px))

\* A clip that was granted every layer it and the clips it called asked for
\* leaves of a fully covered target exactly the clip region, and a clip
\* that was refused its own layer leaves the target as it was.
ClipKeepsRegionWhenLayersGranted ==
    \A i \in Frames :
        stack[i].fn = "clip" /\ stack[i].pc = "ret" =>
            /\ fails = stack[i].f0 =>
                   Cov(ClipAdded(stack[i]), Pix)
                       = ClipRegion(stack[i].node, stack[i].ts0, stack[i].bbox)
            /\ stack[i].lease = 0 => ClipAdded(stack[i]) = <<>>

\* C17: after clip has run on a target, the target keeps exactly the
\* content inside the clip region (the union of the children's
\* contributions, intersected with the nested clip-path's region) and is
\* transparent everywhere else.
C17_ClipKeepsRegion ==
    \A i \in Frames :
        stack[i].fn = "clip" /\ stack[i].pc = "ret" =>
            Cov(ClipAdded(stack[i]), Pix)
                = ClipRegion(stack[i].node, stack[i].ts0, stack[i].bbox)

-----------------------------------------------------------------------------
(* The content of a filter background.  The content of a surface is taken  *)
(* as the paths and images drawn into it, in drawing order, each with the  *)
(* matrix it was drawn with, looked up through composited layers and       *)
(* through filtered and masked layers.                                      *)

RECURSIVE Leaves(_)
Leaves(px) ==
    IF px = <<>>
    THEN <<>>
    ELSE LET it   == Last(px)
             rest == Leaves(SubSeq(px, 1, Len(px) - 1))
         IN  CASE it.k \in {"path", "image"} -> Append(rest, <<it.n, it.m>>)
               [] it.k \in {"surface", "filter", "mask"} -> rest \o Leaves(it.sub)
               [] OTHER -> rest

\* The nodes of the subtree of n in document order
RECURSIVE Concat(_)
Concat(ss) == IF ss = <<>> THEN <<>> ELSE ss[1] \o Concat(Tail(ss))

RECURSIVE DocOrder(_)
DocOrder(n) == <<n>> \o Concat([k \in 1 .. Len(Children[n]) |-> DocOrder(Children[n][k])])

InSubtree(x, n) == x = n \/ IsProperAncestor(n, x)

\* x comes before t in document order and is not an ancestor of t
Precedes(x, t, order) == IndexOf(order, x) < IndexOf(order, t)

\* The matrix a node below the start node of a replay is drawn with on the
\* background image: the viewbox transform, then the node's place in the tree
ReplayMatrix(x) ==
    MatrixConcat(to_native(ViewBoxTransform),
                 to_native(Transform_append(abs_transform(x), NodeTransform[x])))

\* The drawn leaves of the subtree of start chosen by Keep, outside the
\* groups that were refused a layer
ExpectedLeaves(start, failed, Keep(_)) ==
    LET Drawn(x) == /\ Kind[x] \in {"Path", "Image"}
                    /\ \A g \in failed : ~InSubtree(x, g)
                    /\ Keep(x)
        sel == SelectSeq(DocOrder(start), Drawn)
    IN  [k \in 1 .. Len(sel) |-> <<sel[k], ReplayMatrix(sel[k])>>]

\* The layers of the groups enclosing t are drawn without any effect
RECURSIVE EnclosingPlain(_, _)
EnclosingPlain(px, t) ==
    \A k \in DOMAIN px :
        px[k].k = "surface" /\ IsProperAncestor(px[k].n, t) =>
            /\ px[k].a = 255
            /\ \A j \in DOMAIN px[k].sub : px[k].sub[j].k \in {"path", "image", "surface"}
            /\ EnclosingPlain(px[k].sub, t)

\* The replays that have just finished: render_node_to_canvas called by
\* prepare_filter_background is about to return
FinishedReplays ==
    {i \in Frames : /\ stack[i].fn = "render_node_to_canvas"
                    /\ stack[i].pc = "ret"
                    /\ pools[stack[i].pl].target # 0}

\* The statement of the specification: the background of C is the render of
\* A with C removed, every other node of A drawn (groups that were refused
\* a layer apart).
C18_BackgroundIsTreeWithoutTarget ==
    \A i \in FinishedReplays :
        LET f == stack[i]
            t == pools[f.pl].target
            Keep(x) == ~InSubtree(x, t)
        IN  Leaves(surf[f.cv].px) = ExpectedLeaves(f.node, pools[f.pl].failed, Keep)

\* C18: the background supplied to C's filter is the render of A cut off at
\* C: the nodes of A that precede C in document order are drawn and no node
\* that follows C, and the groups enclosing C are drawn without their
\* filter, clip, mask and opacity.  A group that is refused its layer is
\* skipped, and when it encloses C the replay never meets C and draws the
\* nodes that follow C as well.
C18_BackgroundIsTreeBeforeTarget ==
    \A i \in FinishedReplays :
        LET f     == stack[i]
            t     == pools[f.pl].target
            met   == rstate[f.st] = BackgroundFinished
            order == DocOrder(f.node)
            Keep(x) == met => Precedes(x, t, order)
        IN  /\ Leaves(surf[f.cv].px) = ExpectedLeaves(f.node, pools[f.pl].failed, Keep)
            /\ met => EnclosingPlain(surf[f.cv].px, t)
            /\ met <=> \A g \in pools[f.pl].failed : ~IsProperAncestor(g, t)

\* The replay for C below B has met C: the path before B is on the
\* background and the image that follows C in B is not.
C18_Witness ==
    /\ At("render_node_to_canvas", "ret")
    /\ Len(stack) > 1
    /\ pools[Top.pl].target = 15
    /\ rstate[Top.st] = BackgroundFinished
    /\ Leaves(surf[Top.cv].px) = <<<<12, ReplayMatrix(12)>>>>

\* x follows t in the document order of the whole tree
Follows(x, t) == IndexOf(DocOrder(1), x) > IndexOf(DocOrder(1), t)

\* Without a refused layer, no render started in RenderUntil(T) passes a
\* node that follows T to render_node.
NothingAfterTargetWhenLayersGranted ==
    fails = 0 =>
        \A p \in PoolIds :
            pools[p].target # 0 => \A x \in Seen(p) : ~Follows(x, pools[p].target)

\* C19: in every background replay started with RenderUntil(T), no node
\* that follows T in document order is rendered.
C19_NothingAfterTargetRendered ==
    \A p \in PoolIds :
        pools[p].target # 0 => \A x \in Seen(p) : ~Follows(x, pools[p].target)

-----------------------------------------------------------------------------
(* Termination.  The render is one thread that runs until it returns, so   *)
(* a step that can be taken is taken.                                      *)

\* Where the thread is: the depth of the call stack and the position in the
\* function on top of it.  Every step changes it.
Position ==
    <<Len(stack), IF Len(stack) > 0 THEN <<Top.fn, Top.pc, Top.i>> ELSE <<"", "", 0>> >>

FairSpec == Spec /\ WF_Position(Next)

\* The replays in progress: prepare_filter_background waiting for its
\* render_node_to_canvas
Replays == {i \in Frames : stack[i].fn = "prepare_filter_background" /\ stack[i].pc = "done"}

\* A replay started inside another replay targets a node that strictly
\* precedes the outer target in document order
NestedReplayPrecedes ==
    \A i, j \in Replays : i < j => Follows(stack[i].node, stack[j].node)

\* With at most MaxAllocFail refused layers the render returns
RenderTerminates == <>Done

\* Without a refused layer the targets of nested replays go down
NestedReplayPrecedesWhenLayersGranted == fails = 0 => NestedReplayPrecedes

\* C20: render_node_to_canvas terminates, every background replay
\* finishes, and a replay nested inside the replay for target T always
\* targets a node that strictly precedes T in document order.
C20_ReplaysTerminate == [](NestedReplayPrecedes) /\ <>Done

-----------------------------------------------------------------------------
(* Exclusive leases *)

\* The surfaces of the live leases of pool p
LiveLeases(p) == {stack[i].lease : i \in {j \in Frames : stack[j].lease # 0 /\ stack[j].pl = p}}

\* C21: no two live Layer leases obtained from the same pool refer to the
\* same surface, whatever the nesting of render_group_impl, clip and
\* clip_group, and get neither zero-fills nor hands out a surface that a
\* live lease is using.
C21_LeasesExclusive ==
    /\ \A i, j \in Frames :
          (i # j /\ stack[i].lease # 0 /\ stack[j].lease # 0
                 /\ stack[i].pl = stack[j].pl) => stack[i].lease # stack[j].lease
    /\ AboutToGet =>
          \A ok \in BOOLEAN :
              LET got == Layers_get(pools[Top.pl], surf, ok)
              IN  /\ IsSome(got.res) => got.res[1] \notin LiveLeases(Top.pl)
                  /\ \A l \in LiveLeases(Top.pl) : got.surf[l] = surf[l]

\* clip is about to get a layer that an earlier group drew on, while two
\* leases of the same pool are live and drawn on.
C21_Witness ==
    /\ At("clip", "enter")
    /\ Cardinality(LiveLeases(Top.pl)) >= 2
    /\ used_layers(pools[Top.pl]) < Len(pools[Top.pl].d)
    /\ ~IsZero(surf[pools[Top.pl].d[used_layers(pools[Top.pl]) + 1]])
    /\ \A l \in LiveLeases(Top.pl) : ~IsZero(surf[l])

-----------------------------------------------------------------------------
(* The clip-path of a clip-path *)

\* The clip calls made by clip for the clip-path of its clip-path
NestedClips ==
    {i \in Frames : /\ i > 1
                    /\ stack[i].fn = "clip"
                    /\ stack[i - 1].fn = "clip"
                    /\ stack[i - 1].pc = "apply"}

-----------------------------------------------------------------------------
(* The operator of the clip layer's context *)

\* The clips that hold their layer
ClipsWithLayer == {i \in Frames : stack[i].fn = "clip" /\ stack[i].lease # 0}

\* Before any Group child has been handled, the Path children are drawn
\* with Clear.
ClearBeforeFirstGroup ==
    \A i \in ClipsWithLayer :
        \A k \in DOMAIN surf[stack[i].lease].px :
            LET it == surf[stack[i].lease].px[k]
            IN  (it.k = "path" /\ it.op # "Clear") =>
                    \E j \in 1 .. (k - 1) :
                        /\ surf[stack[i].lease].px[j].k = "paint_surface"
                        /\ Kind[surf[stack[i].lease].px[j].n] = "Group"

\* C23: every Path child of a clip-path is drawn into the clip layer's
\* context with the Clear operator in effect, whatever children came before
\* it, Group children handled by clip_group included.
C23_PathsDrawnWithClear ==
    \A i \in ClipsWithLayer :
        \A k \in DOMAIN surf[stack[i].lease].px :
            surf[stack[i].lease].px[k].k = "path" => surf[stack[i].lease].px[k].op = "Clear"

-----------------------------------------------------------------------------
(* The child that clip_group draws *)

\* The Path children of a group, in order
PathChildren(n) == SelectSeq(Children[n], LAMBDA c : Kind[c] = "Path")

\* The clip_group calls that got their layer
ClipGroupsWithLayer == {i \in Frames : stack[i].fn = "clip_group" /\ stack[i].lease # 0}

\* The path drawn into the layer of clip_group, if any: the layer holds the
\* transparent paint first and the drawn child next
DrawnChild(l) ==
    IF Len(surf[l].px) >= 2 /\ surf[l].px[2].k = "path" THEN Some(surf[l].px[2].n) ELSE None

\* What the code draws: the group's first child when it is a Path, nothing
\* otherwise
FirstChildDrawnIfPath ==
    \A i \in ClipGroupsWithLayer :
        LET cs == Children[stack[i].node]
        IN  DrawnChild(stack[i].lease)
                = IF Len(cs) > 0 /\ Kind[cs[1]] = "Path" THEN Some(cs[1]) ELSE None

\* C24: for a Group child of a clip-path with its own resolvable clip-path,
\* clip_group draws the first Path child of the group into its layer, also
\* when the group's first child is not a Path, before the group's clip-path
\* is applied to the layer.
C24_FirstPathChildDrawn ==
    \A i \in ClipGroupsWithLayer :
        LET ps == PathChildren(stack[i].node)
        IN  Len(ps) > 0 => DrawnChild(stack[i].lease) = Some(ps[1])

-----------------------------------------------------------------------------
(* The RenderState cells.  Cell 1 is the state of the render of the        *)
(* document; every replay runs on a cell of its own.                       *)

\* A step changes a cell only from RenderUntil(T) to BackgroundFinished, in
\* render_group when its next child is T, and takes that step whenever the
\* loop of a render in RenderUntil(T) comes to T; a new cell is the
\* RenderUntil state of a replay that prepare_filter_background starts.
C25_Step ==
    /\ \A s \in DOMAIN rstate :
          /\ s \in DOMAIN rstate'
          /\ rstate'[s] # rstate[s] =>
                /\ rstate[s].k = "RenderUntil"
                /\ rstate'[s] = BackgroundFinished
                /\ At("render_group", "loop")
                /\ Top.st = s
                /\ HasNext(Top)
                /\ NextChild(Top) = rstate[s].node
    /\ (At("render_group", "loop") /\ HasNext(Top) /\ stack' # stack
            /\ rstate[Top.st] = RenderUntil(NextChild(Top)))
          => rstate'[Top.st] = BackgroundFinished
    /\ Len(rstate') # Len(rstate) =>
          /\ At("prepare_filter_background", "enter")
          /\ rstate' = Append(rstate, RenderUntil(Top.node))
          /\ stack'[Len(stack')].st = Len(rstate')

\* The render of the document is in Ok, and only replays run on the other
\* cells.
C25_OkStaysOk ==
    /\ rstate[1] = StateOk
    /\ \A s \in DOMAIN rstate : s > 1 => rstate[s].k \in {"RenderUntil", "BackgroundFinished"}
    /\ \A i \in Frames :
          (stack[i].fn \in Walkers \cup {"render_node_to_canvas"} /\ stack[i].st = 1) =>
              \A j \in 1 .. i : stack[j].fn # "prepare_filter_background"

\* C25: the RenderState changes only by RenderUntil(T) -> BackgroundFinished,
\* taken in render_group exactly when the next child is T; a render started
\* in Ok is in Ok at every step and on return, filter background
\* preparation running on a state of its own; BackgroundFinished is never
\* left.
C25_RenderStateTransitions == [](C25_OkStaysOk) /\ [][C25_Step]_vars

\* A replay has finished in BackgroundFinished and the render that asked
\* for it goes on in Ok.
C25_Witness ==
    /\ At("render_group_impl", "filter")
    /\ Top.st = 1
    /\ IsSome(ret)
    /\ rstate[Len(rstate)] = BackgroundFinished
    /\ rstate[1] = StateOk

====
